---- MODULE Spec2Model ----
(***************************************************************************)
(* Project Samarth, backend.py: the two analytical queries                 *)
(* (compare_average_rainfall, top_crops_in_state), the loaders they read   *)
(* through (get_rainfall_data, get_crop_data) and download_csv_with_retry. *)
(*                                                                         *)
(* Text is a sequence of one-character strings, so that lower(), strip(),  *)
(* split(), substring tests and the year regex are computed, not assumed.  *)
(* A CSV cell is a record [k, v, s]: k = "na" (empty field / NaN),         *)
(* k = "num" (a numeric literal, value v) or k = "str" (any other text s). *)
(* Rainfall is in mm, averages are in 1/100 mm; crop production is in      *)
(* 1/1000 of the unit, rounded totals in 1/100.                            *)
(***************************************************************************)
EXTENDS Integers, Sequences, FiniteSets, TLC

VARIABLES
    fn,        \* the function being run: "rain", "crop" or "download"
    pc,        \* "call" before the function body runs, "return" after
    csv,       \* the data file the loader reads: [cols, rows]
    args,      \* the call's arguments
    result,    \* the value handed back to the caller (or the exception raised)
    years,     \* compare_average_rainfall's window (line 168, printed at 169)
    attempt,   \* download_csv_with_retry: GET attempts made so far
    outcomes,  \* download_csv_with_retry: what each attempt met
    file       \* download_csv_with_retry: the state of output_path

vars == <<fn, pc, csv, args, result, years, attempt, outcomes, file>>

----------------------------------------------------------------------------
(* Bounds of the model *)

MaxN == 2            \* last_n_years ranges over 1..MaxN
MaxTopM == 2         \* top_m ranges over 1..MaxTopM
MaxRows == 3         \* rows of a generated rainfall table
MaxRetries == 3      \* max_retries ranges over 0..MaxRetries
WideCols == 21       \* width of the generated wide table

(* Program constants *)

StateSampleLimit == 30     \* unique_states[:30]
ColumnSampleLimit == 20    \* list(df.columns)[:20]
max_year == 2015           \* "Latest year in the dataset"

----------------------------------------------------------------------------
(* Python str operations *)

UpperAlpha == <<"A","B","C","D","E","F","G","H","I","J","K","L","M",
                "N","O","P","Q","R","S","T","U","V","W","X","Y","Z">>
LowerAlpha == <<"a","b","c","d","e","f","g","h","i","j","k","l","m",
                "n","o","p","q","r","s","t","u","v","w","x","y","z">>
DigitChars == <<"0","1","2","3","4","5","6","7","8","9">>

LowerChar(c) ==
    IF \E i \in 1..26 : UpperAlpha[i] = c
    THEN LowerAlpha[CHOOSE i \in 1..26 : UpperAlpha[i] = c]
    ELSE c

RECURSIVE Lower(_)
Lower(s) == IF s = <<>> THEN <<>> ELSE <<LowerChar(Head(s))>> \o Lower(Tail(s))

IsSpace(c) == c \in {" ", "\t"}

RECURSIVE LStripBy(_, _)
LStripBy(s, cs) ==
    IF s # <<>> /\ Head(s) \in cs THEN LStripBy(Tail(s), cs) ELSE s

RECURSIVE RStripBy(_, _)
RStripBy(s, cs) ==
    IF s # <<>> /\ s[Len(s)] \in cs THEN RStripBy(SubSeq(s, 1, Len(s) - 1), cs) ELSE s

StripBy(s, cs) == RStripBy(LStripBy(s, cs), cs)

Strip(s) == StripBy(s, {" ", "\t"})

StartsAt(sub, s, i) ==
    /\ i >= 1
    /\ i + Len(sub) - 1 <= Len(s)
    /\ SubSeq(s, i, i + Len(sub) - 1) = sub

\* sub in s
Contains(sub, s) == \E i \in 1..(Len(s) - Len(sub) + 1) : StartsAt(sub, s, i)

\* s.find(sub) + 1, 0 when absent
Find(sub, s) ==
    IF Contains(sub, s)
    THEN CHOOSE i \in 1..(Len(s) - Len(sub) + 1) :
            /\ StartsAt(sub, s, i)
            /\ \A j \in 1..(i - 1) : ~StartsAt(sub, s, j)
    ELSE 0

\* s.split(sep)[0]
SplitFirst(s, sep) ==
    IF Find(sep, s) = 0 THEN s ELSE SubSeq(s, 1, Find(sep, s) - 1)

\* s.split(c) for a one-character separator
RECURSIVE SplitChar(_, _)
SplitChar(s, c) ==
    IF Find(<<c>>, s) = 0 THEN <<s>>
    ELSE <<SubSeq(s, 1, Find(<<c>>, s) - 1)>>
            \o SplitChar(SubSeq(s, Find(<<c>>, s) + 1, Len(s)), c)

\* s.replace(sub, "")
RECURSIVE Remove(_, _)
Remove(s, sub) ==
    IF Find(sub, s) = 0 THEN s
    ELSE SubSeq(s, 1, Find(sub, s) - 1)
            \o Remove(SubSeq(s, Find(sub, s) + Len(sub), Len(s)), sub)

IsDigitChar(c) == \E i \in 1..10 : DigitChars[i] = c

\* s.isdigit()
IsDigit(s) == s # <<>> /\ \A i \in 1..Len(s) : IsDigitChar(s[i])

DigitVal(c) == (CHOOSE i \in 1..10 : DigitChars[i] = c) - 1

\* int(s) for a string of digits
RECURSIVE IntOf(_)
IntOf(s) ==
    IF s = <<>> THEN 0
    ELSE 10 * IntOf(SubSeq(s, 1, Len(s) - 1)) + DigitVal(s[Len(s)])

\* str(n) for n >= 0
RECURSIVE StrOfInt(_)
StrOfInt(n) ==
    IF n < 10 THEN <<DigitChars[n + 1]>>
    ELSE StrOfInt(n \div 10) \o <<DigitChars[(n % 10) + 1]>>

\* round(num / den, 2) in hundredths, ties to even (num >= 0, den > 0)
Round2(num, den) ==
    LET q == (num * 100) \div den
        r == (num * 100) % den
    IN  IF 2 * r > den THEN q + 1
        ELSE IF 2 * r < den THEN q
        ELSE IF q % 2 = 0 THEN q ELSE q + 1

----------------------------------------------------------------------------
(* CSV cells and data frames *)

NA == [k |-> "na", v |-> 0, s |-> <<>>]
Num(x) == [k |-> "num", v |-> x, s |-> <<>>]
Str(t) == [k |-> "str", v |-> 0, s |-> t]

\* pd.notna(cell)
NotNa(c) == c.k # "na"

\* pd.to_numeric(..., errors='coerce') on one cell
ToNumeric(c) == IF c.k = "str" THEN NA ELSE c

\* the text of a cell of an object column (read_csv keeps such a column as text)
CellText(c) == IF c.k = "num" THEN StrOfInt(c.v) ELSE c.s

Column(df, j) == [i \in 1..Len(df.rows) |-> df.rows[i][j]]

\* the dtype read_csv / to_numeric leaves a column with
Dtype(df, j) ==
    IF \E i \in 1..Len(df.rows) : df.rows[i][j].k = "str" THEN "object" ELSE "numeric"

\* df.empty
Empty(df) == df.cols = <<>> \/ df.rows = <<>>

EmptyFrame == [cols |-> <<>>, rows |-> <<>>]

\* next((c for c in df.columns if test(c)), None), where hit[j] says whether
\* the test holds of column j; 0 for None
FirstCol(hit) ==
    IF \E j \in 1..Len(hit) : hit[j]
    THEN CHOOSE j \in 1..Len(hit) :
            /\ hit[j]
            /\ \A h \in 1..(j - 1) : ~hit[h]
    ELSE 0

\* seq[:n]
Take(seq, n) == SubSeq(seq, 1, IF n < Len(seq) THEN n ELSE Len(seq))

\* seq[-n:] for n >= 1
LastN(seq, n) == SubSeq(seq, IF n < Len(seq) THEN Len(seq) - n + 1 ELSE 1, Len(seq))

\* Series.unique(): the values in order of first appearance
RECURSIVE Unique(_)
Unique(seq) ==
    IF seq = <<>> THEN <<>>
    ELSE LET init == Unique(SubSeq(seq, 1, Len(seq) - 1))
             x == seq[Len(seq)]
         IN  IF \E i \in 1..Len(init) : init[i] = x THEN init ELSE Append(init, x)

\* sorted(S) for a set of integers
RECURSIVE Sorted(_)
Sorted(S) ==
    IF S = {} THEN <<>>
    ELSE LET m == CHOOSE x \in S : \A y \in S : x <= y
         IN  <<m>> \o Sorted(S \ {m})

state_str == <<"s","t","a","t","e">>
year_str == <<"y","e","a","r">>
rain_str == <<"r","a","i","n">>
annual_str == <<"a","n","n","u","a","l">>
name_str == <<"n","a","m","e">>

----------------------------------------------------------------------------
(* Result records.  Every result has the same fields; kind tells which of  *)
(* the dictionaries of backend.py it is, "raise" an exception that leaves  *)
(* the function.                                                           *)

NaN == [na |-> TRUE, v |-> 0]
Val(x) == [na |-> FALSE, v |-> x]

Blank ==
    [kind |-> "none", state |-> <<>>, available_columns |-> <<>>,
     available_states_sample |-> <<>>, avg_rainfall_x |-> NaN,
     avg_rainfall_y |-> NaN, years_analyzed |-> <<>>, top_crops |-> <<>>,
     exc |-> ""]

DataUnavailable == [Blank EXCEPT !.kind = "DataUnavailable"]
MissingColumn(columns) ==
    [Blank EXCEPT !.kind = "MissingColumn", !.available_columns = columns]
NoYearData == [Blank EXCEPT !.kind = "NoYearData"]
StateNotFound(state, sample) ==
    [Blank EXCEPT !.kind = "StateNotFound", !.state = state,
                  !.available_states_sample = sample]
NoValidProduction(state) ==
    [Blank EXCEPT !.kind = "NoValidProduction", !.state = state]
Raise(e) == [Blank EXCEPT !.kind = "raise", !.exc = e]

----------------------------------------------------------------------------
(* get_rainfall_data and compare_average_rainfall *)

\* 'year' in col.lower() or 'rain' in col.lower()
IsRainNumericCol(col) == Contains(year_str, Lower(col)) \/ Contains(rain_str, Lower(col))

\* The frame get_rainfall_data returns.  A missing or unreadable file is the
\* empty frame; the columns named like a year or like rain are coerced.
get_rainfall_data(f) ==
    [cols |-> f.cols,
     rows |-> [i \in 1..Len(f.rows) |->
                 [j \in 1..Len(f.cols) |->
                    IF IsRainNumericCol(f.cols[j]) THEN ToNumeric(f.rows[i][j])
                    ELSE f.rows[i][j]]]]

IsStateCol(c) == Contains(state_str, Lower(c))
IsYearCol(c) == Contains(year_str, Lower(c))
IsRainCol(c) == Contains(rain_str, Lower(c)) \/ Contains(annual_str, Lower(c))

\* sorted(valid_years.unique())[-last_n_years:]
RecentYearsFirstN(valid_years, n) == Take(Sorted(valid_years), n)
RecentYears(valid_years, n) == LastN(Sorted(valid_years), n)

\* df[state_col].str.lower().str.strip() == state.lower().strip(), row by row
\* (a NaN cell stays NaN and compares unequal)
StateMatches(cell, state) ==
    NotNa(cell) /\ Strip(Lower(CellText(cell))) = Strip(Lower(state))

\* the rows (their indices, in order) where mask holds
RECURSIVE RowsWhere(_, _)
RowsWhere(n, mask) ==
    IF n = 0 THEN <<>>
    ELSE IF mask[n] THEN Append(RowsWhere(n - 1, mask), n) ELSE RowsWhere(n - 1, mask)

RECURSIVE SumCells(_)
SumCells(cells) ==
    IF cells = <<>> THEN 0
    ELSE (IF NotNa(Head(cells)) THEN Head(cells).v ELSE 0) + SumCells(Tail(cells))

CountAll(cells) == Len(cells)
CountValid(cells) == Len(SelectSeq(cells, NotNa))

\* Series.mean() of the selected cells of a column of the given dtype, rounded
\* as line 195 rounds it.  An object column holds text: the mean of no value
\* at all is NaN, the mean of text raises TypeError.
MeanCountingNaN(cells, dtype) ==
    IF CountValid(cells) = 0 THEN [raised |-> FALSE, avg |-> NaN]
    ELSE IF dtype = "object" THEN [raised |-> TRUE, avg |-> NaN]
    ELSE [raised |-> FALSE, avg |-> Val(Round2(SumCells(cells), CountAll(cells)))]
Mean(cells, dtype) ==
    IF CountValid(cells) = 0 THEN [raised |-> FALSE, avg |-> NaN]
    ELSE IF dtype = "object" THEN [raised |-> TRUE, avg |-> NaN]
    ELSE [raised |-> FALSE, avg |-> Val(Round2(SumCells(cells), CountValid(cells)))]

\* list(unique_states[:30])
StatesSample(unique_states) == Take(unique_states, StateSampleLimit)

\* compare_average_rainfall(state_x, state_y, last_n_years) over the file f:
\* [ret |-> what the caller gets, years |-> the window of line 168, <<>>
\* when the function ends before it]
compare_average_rainfall(f, state_x, state_y, last_n_years) ==
    LET df == get_rainfall_data(f)
        state_col == FirstCol([j \in 1..Len(df.cols) |-> IsStateCol(df.cols[j])])
        year_col == FirstCol([j \in 1..Len(df.cols) |-> IsYearCol(df.cols[j])])
        rain_col == FirstCol([j \in 1..Len(df.cols) |-> IsRainCol(df.cols[j])])
    IN
    IF Empty(df) THEN [ret |-> DataUnavailable, years |-> <<>>]
    ELSE IF state_col = 0 \/ year_col = 0 \/ rain_col = 0
    THEN [ret |-> MissingColumn(df.cols), years |-> <<>>]
    ELSE
    LET n == Len(df.rows)
        unique_states == Unique(Column(df, state_col))
        valid_years == {df.rows[i][year_col].v :
                            i \in {h \in 1..n : NotNa(df.rows[h][year_col])}}
    IN
    IF valid_years = {} THEN [ret |-> NoYearData, years |-> <<>>]
    ELSE
    LET window == RecentYears(valid_years, last_n_years)
        InWindow(i) == /\ NotNa(df.rows[i][year_col])
                       /\ \E h \in 1..Len(window) : window[h] = df.rows[i][year_col].v
        df_x == RowsWhere(n, [i \in 1..n |->
                    StateMatches(df.rows[i][state_col], state_x) /\ InWindow(i)])
        df_y == RowsWhere(n, [i \in 1..n |->
                    StateMatches(df.rows[i][state_col], state_y) /\ InWindow(i)])
        avg_x == Mean([h \in 1..Len(df_x) |-> df.rows[df_x[h]][rain_col]],
                      Dtype(df, rain_col))
        avg_y == Mean([h \in 1..Len(df_y) |-> df.rows[df_y[h]][rain_col]],
                      Dtype(df, rain_col))
    IN
    \* .str on a column that holds no text raises AttributeError
    IF Dtype(df, state_col) # "object"
    THEN [ret |-> Raise("AttributeError"), years |-> window]
    ELSE IF df_x = <<>>
    THEN [ret |-> StateNotFound(state_x, StatesSample(unique_states)), years |-> window]
    ELSE IF df_y = <<>>
    THEN [ret |-> StateNotFound(state_y, StatesSample(unique_states)), years |-> window]
    ELSE IF avg_x.raised \/ avg_y.raised
    THEN [ret |-> Raise("TypeError"), years |-> window]
    ELSE [ret |-> [Blank EXCEPT !.kind = "ok",
                                !.avg_rainfall_x = avg_x.avg,
                                !.avg_rainfall_y = avg_y.avg,
                                !.years_analyzed = window],
          years |-> window]

----------------------------------------------------------------------------
(* get_crop_data and top_crops_in_state *)

state_ut_name == <<"S","t","a","t","e","/"," ","U","T"," ","N","a","m","e">>

\* col != 'State/ UT Name' and 'state' not in col.lower() and 'name' not in col.lower()
IsCropNumericCol(col) ==
    /\ col # state_ut_name
    /\ ~Contains(state_str, Lower(col))
    /\ ~Contains(name_str, Lower(col))

get_crop_data(f) ==
    [cols |-> f.cols,
     rows |-> [i \in 1..Len(f.rows) |->
                 [j \in 1..Len(f.cols) |->
                    IF IsCropNumericCol(f.cols[j]) THEN ToNumeric(f.rows[i][j])
                    ELSE f.rows[i][j]]]]

IsCropStateCol(c) == Contains(state_str, Lower(c)) \/ Contains(name_str, Lower(c))

None == -1

\* Python truth of year_match: None and 0 are both false
Truthy(y) == y # None /\ y # 0

\* Lines 251-263: the first 4-digit part of the column name split at '-'
YearMatch(col) ==
    IF ~Contains(<<"-">>, col) THEN None
    ELSE LET parts == SplitChar(col, "-")
             Is4(i) == Len(parts[i]) = 4 /\ IsDigit(parts[i])
         IN  IF \E i \in 1..Len(parts) : Is4(i)
             THEN IntOf(parts[CHOOSE i \in 1..Len(parts) :
                                Is4(i) /\ \A h \in 1..(i - 1) : ~Is4(h)])
             ELSE None

\* re.sub(r'-\d{4}(-\d{2})?$', '', s)
ReSubYearSuffix(s) ==
    LET n == Len(s)
        long == /\ n >= 8
                /\ s[n - 7] = "-" /\ IsDigit(SubSeq(s, n - 6, n - 3))
                /\ s[n - 2] = "-" /\ IsDigit(SubSeq(s, n - 1, n))
        short == /\ n >= 5
                 /\ s[n - 4] = "-" /\ IsDigit(SubSeq(s, n - 3, n))
    IN  IF long THEN SubSeq(s, 1, n - 8)
        ELSE IF short THEN SubSeq(s, 1, n - 5)
        ELSE s

production_str == <<"-","(","P","r","o","d","u","c","t","i","o","n">>
th_tonnes_str == <<"-","(","T","h","."," ","t","o","n","n","e","s",")">>
thousand_str == <<"-","(","0","0","0">>
cereals_str == <<"F","o","o","d"," ","g","r","a","i","n","s"," ",
                 "(","c","e","r","e","a","l","s",")","-">>
pulses_str == <<"F","o","o","d"," ","g","r","a","i","n","s",
                "(","p","u","l","s","e","s",")","-">>
oilseeds_str == <<"O","i","l","s","e","e","d","s","-">>

\* Lines 265-288: the crop label of a column
CropName(col, year_match) ==
    LET c1 == IF Contains(production_str, col) THEN SplitFirst(col, production_str)
              ELSE IF Contains(th_tonnes_str, col) THEN SplitFirst(col, th_tonnes_str)
              ELSE IF Contains(thousand_str, col) THEN SplitFirst(col, thousand_str)
              ELSE col
        c2 == IF Truthy(year_match) THEN ReSubYearSuffix(c1) ELSE c1
        c3 == IF Contains(cereals_str, c2) THEN Remove(c2, cereals_str)
              ELSE IF Contains(pulses_str, c2) THEN Remove(c2, pulses_str)
              ELSE IF Contains(oilseeds_str, c2) THEN Remove(c2, oilseeds_str)
              ELSE c2
    IN  Strip(StripBy(c3, {"-"}))

StopWords ==
    { <<"s","t","a","t","e">>, <<"n","a","m","e">>, <<"t","o","t","a","l">>,
      <<"a","l","l","-","i","n","d","i","a">>, <<"a","l","l"," ","i","n","d","i","a">> }

\* Line 290: the column is structural, not a crop
Dropped(crop_name) == crop_name = <<>> \/ Lower(crop_name) \in StopWords

\* Lines 294-298: the column is older than the window
OutOfWindowUnparsed(year_match, last_n_years) ==
    \/ ~Truthy(year_match)
    \/ last_n_years # 0 /\ year_match < max_year - last_n_years + 1
OutOfWindow(year_match, last_n_years) ==
    /\ Truthy(year_match) /\ last_n_years # 0
    /\ year_match < max_year - last_n_years + 1

\* Lines 301-312: the cell counts (notna, float() succeeds, > 0)
Counts(cell) == cell.k = "num" /\ cell.v > 0

\* crop_totals[crop_name] += value, keeping the dict's insertion order
AddTotal(totals, crop, value) ==
    IF \E i \in 1..Len(totals) : totals[i].crop = crop
    THEN [i \in 1..Len(totals) |->
            IF totals[i].crop = crop
            THEN [crop |-> crop, total |-> totals[i].total + value]
            ELSE totals[i]]
    ELSE Append(totals, [crop |-> crop, total |-> value])

\* Lines 243-312: crop_totals after the columns 1..j, read from row r
RECURSIVE CropTotals(_, _, _, _, _)
CropTotals(df, r, state_col, last_n_years, j) ==
    IF j = 0 THEN <<>>
    ELSE LET before == CropTotals(df, r, state_col, last_n_years, j - 1)
             col == df.cols[j]
             year_match == YearMatch(col)
             crop_name == CropName(col, year_match)
         IN  IF j = state_col THEN before
             ELSE IF Dropped(crop_name) THEN before
             ELSE IF OutOfWindow(year_match, last_n_years) THEN before
             ELSE IF Counts(df.rows[r][j])
                  THEN AddTotal(before, crop_name, df.rows[r][j].v)
                  ELSE before

RemoveAt(seq, i) == SubSeq(seq, 1, i - 1) \o SubSeq(seq, i + 1, Len(seq))

\* sorted(crop_totals.items(), key=lambda x: x[1], reverse=True): stable
RECURSIVE SortedCropsAscending(_)
SortedCropsAscending(totals) ==
    IF totals = <<>> THEN <<>>
    ELSE LET i == CHOOSE i \in 1..Len(totals) :
                    /\ \A h \in 1..Len(totals) : totals[h].total >= totals[i].total
                    /\ \A h \in 1..(i - 1) : totals[h].total > totals[i].total
         IN  <<totals[i]>> \o SortedCropsAscending(RemoveAt(totals, i))
RECURSIVE SortedCrops(_)
SortedCrops(totals) ==
    IF totals = <<>> THEN <<>>
    ELSE LET i == CHOOSE i \in 1..Len(totals) :
                    /\ \A h \in 1..Len(totals) : totals[h].total <= totals[i].total
                    /\ \A h \in 1..(i - 1) : totals[h].total < totals[i].total
         IN  <<totals[i]>> \o SortedCrops(RemoveAt(totals, i))

\* list(df.columns)[:20]
ColumnsSampleAll(cols) == cols
ColumnsSample(cols) == Take(cols, ColumnSampleLimit)

\* top_crops_in_state(state, top_m, last_n_years) over the file f
top_crops_in_state(f, state, top_m, last_n_years) ==
    LET df == get_crop_data(f)
        state_col == FirstCol([j \in 1..Len(df.cols) |-> IsCropStateCol(df.cols[j])])
    IN
    IF Empty(df) THEN DataUnavailable
    ELSE IF state_col = 0 THEN MissingColumn(ColumnsSample(df.cols))
    ELSE IF Dtype(df, state_col) # "object" THEN Raise("AttributeError")
    ELSE
    LET n == Len(df.rows)
        unique_states == Unique(Column(df, state_col))
        df_state == RowsWhere(n, [i \in 1..n |->
                        StateMatches(df.rows[i][state_col], state)])
    IN
    IF df_state = <<>> THEN StateNotFound(state, StatesSample(unique_states))
    ELSE
    LET crop_totals == CropTotals(df, df_state[1], state_col, last_n_years, Len(df.cols))
        top_crops == Take(SortedCrops(crop_totals), top_m)
    IN
    IF crop_totals = <<>> THEN NoValidProduction(state)
    ELSE [Blank EXCEPT
            !.kind = "ok", !.state = state,
            !.top_crops = [i \in 1..Len(top_crops) |->
                             [crop |-> top_crops[i].crop,
                              total_production |-> Round2(top_crops[i].total, 1000)]]]

----------------------------------------------------------------------------
(* download_csv_with_retry: one GET attempt per step *)

\* What one pass of the loop body (lines 33-49) can meet
Outcomes == {"ok200", "non200", "timeout", "exception", "write_failure"}

\* Line 42 returns from inside the loop; every other outcome falls through to
\* the next iteration
LeavesLoopNever(o) == FALSE
LeavesLoop(o) == o = "ok200"

\* output_path after the attempt: written whole on success; a failed write
\* (open() or a chunk) leaves it as it was or truncated
FileAfter(o, before) ==
    IF o = "ok200" THEN {"complete"}
    ELSE IF o = "write_failure" THEN {before, "partial"}
    ELSE {before}

----------------------------------------------------------------------------
(* Inputs *)

Maharashtra == <<"M","a","h","a","r","a","s","h","t","r","a">>
Kerala == <<"K","e","r","a","l","a">>
Punjab == <<"P","u","n","j","a","b">>
Goa == <<"G","o","a">>
maharashtra_sp == <<"m","a","h","a","r","a","s","h","t","r","a"," ">>
KERALA_up == <<"K","E","R","A","L","A">>
punjab_sp == <<" ","p","u","n","j","a","b"," ">>
abc == <<"a","b","c">>

\* Rainfall rows as (state, year, rainfall) cells
RainRow(st, yr, rf) == <<st, yr, rf>>

ScenarioRain ==
    << RainRow(Str(Maharashtra), Num(2018), Num(2000)),
       RainRow(Str(Maharashtra), Num(2019), Num(2200)),
       RainRow(Str(Kerala), Num(2018), Num(3000)),
       RainRow(Str(Kerala), Num(2019), Num(3200)) >>

RainRowPool ==
    { ScenarioRain[1], ScenarioRain[2], ScenarioRain[3], ScenarioRain[4],
      RainRow(Str(<<" ">> \o maharashtra_sp), Num(2019), NA),
      RainRow(Str(KERALA_up \o <<" ">>), NA, Num(3100)) }

\* Rows that make a column hold no text at all, or text where numbers belong
OddRowPool12 == RainRow(Num(12), Num(2018), Num(2000))

OddRowPool ==
    { OddRowPool12,
      RainRow(NA, Num(2017), Num(50)),
      RainRow(Str(Kerala), Num(2019), Str(abc)),
      RainRow(Str(Kerala), Str(abc), Num(3000)) }

SeqsUpTo(S, n) == UNION { [1..k -> S] : k \in 0..n }

\* Column layouts: the name of each column and which cell of a row it holds
\* (0: a filler cell)
Col(name, role) == [name |-> name, role |-> role]

WideName(i) == <<"c">> \o StrOfInt(i)

RainLayouts ==
    { << Col(<<"S","t","a","t","e">>, 1), Col(<<"Y","e","a","r">>, 2),
         Col(<<"R","a","i","n","f","a","l","l">>, 3) >>,
      << Col(<<"S","T","A","T","E","_","U","T">>, 1), Col(<<"Y","E","A","R">>, 2),
         Col(<<"A","N","N","U","A","L">>, 3) >>,
      << Col(<<"J","U","N">>, 0), Col(<<"Y","E","A","R">>, 2),
         Col(<<"A","n","n","u","a","l">>, 3), Col(<<"s","t","a","t","e">>, 1) >>,
      << Col(<<"D","i","s","t","r","i","c","t">>, 1), Col(<<"Y","e","a","r">>, 2),
         Col(<<"R","a","i","n","f","a","l","l">>, 3) >>,
      << Col(<<"S","t","a","t","e">>, 1), Col(<<"A","n","n","u","a","l">>, 3) >>,
      << Col(<<"S","t","a","t","e">>, 1), Col(<<"Y","e","a","r">>, 2),
         Col(<<"J","U","N">>, 3) >>,
      [i \in 1..WideCols |-> Col(WideName(i), 0)] }

Frame(layout, rows) ==
    [cols |-> [j \in 1..Len(layout) |-> layout[j].name],
     rows |-> [i \in 1..Len(rows) |->
                 [j \in 1..Len(layout) |->
                    IF layout[j].role = 0 THEN Num(7) ELSE rows[i][layout[j].role]]]]

StdRainLayout ==
    << Col(<<"S","t","a","t","e">>, 1), Col(<<"Y","e","a","r">>, 2),
       Col(<<"R","a","i","n","f","a","l","l">>, 3) >>

MaxOddRows == 2      \* rows of a rainfall table that holds odd rows

\* Three rows of one state (a mean that needs rounding) and a side whose
\* rainfall in the last year is missing
ThirdsRain ==
    << RainRow(Str(Maharashtra), Num(2018), Num(2000)),
       RainRow(Str(Maharashtra), Num(2019), Num(2200)),
       RainRow(Str(Maharashtra), Num(2019), Num(2000)),
       RainRow(Str(<<" ">> \o maharashtra_sp), Num(2018), NA),
       RainRow(Str(Kerala), Num(2018), Num(3200)),
       RainRow(Str(Kerala), Num(2019), NA) >>

AnnualRainLayout ==
    << Col(<<"S","T","A","T","E","_","U","T">>, 1), Col(<<"Y","E","A","R">>, 2),
       Col(<<"A","N","N","U","A","L">>, 3) >>

RainStatePairs ==
    { <<maharashtra_sp, KERALA_up>>, <<Maharashtra, Kerala>>,
      <<Maharashtra, Goa>>, <<Goa, Kerala>> }

\* (file, state_x, state_y): every pool table under the standard header; the
\* small tables with odd rows under the two usual headers; the fixed tables
\* under every layout and every pair of states; the missing file
RainInputs ==
    { <<Frame(StdRainLayout, rows), maharashtra_sp, KERALA_up>> :
        rows \in SeqsUpTo(RainRowPool, MaxRows) }
    \cup
    { <<Frame(l, rows), maharashtra_sp, KERALA_up>> :
        l \in {StdRainLayout, AnnualRainLayout},
        rows \in SeqsUpTo(RainRowPool \cup OddRowPool, MaxOddRows) }
    \cup
    { <<Frame(l, rows), p[1], p[2]>> :
        l \in RainLayouts,
        rows \in {ScenarioRain, ThirdsRain, <<OddRowPool12>>, <<>>},
        p \in RainStatePairs }
    \cup
    { <<EmptyFrame, Maharashtra, Kerala>> }

\* Crop rows as (state, v1, v2, v3) cells: one production cell per crop column
CropRow(st, v) == <<st, v[1], v[2], v[3]>>

PUNJAB_sp == <<" ","P","U","N","J","A","B">>

CropLayouts ==
    { << Col(<<"S","t","a","t","e">>, 1),
         Col(<<"W","h","e","a","t","-","2","0","1","4","-","1","5">>, 2),
         Col(<<"R","i","c","e","-","2","0","1","4","-","1","5">>, 3),
         Col(<<"W","h","e","a","t","-","2","0","1","3","-","1","4">>, 4) >>,
      << Col(state_ut_name, 1),
         Col(cereals_str \o <<"R","i","c","e">> \o production_str
                \o <<")","-","2","0","1","4","-","1","5">>, 2),
         Col(<<"R","i","c","e","-","2","0","1","5","-","1","6">>, 3),
         Col(<<"T","o","t","a","l","-","2","0","1","5","-","1","6">>, 4) >>,
      << Col(<<"M","a","i","z","e">>, 2),
         Col(<<"s","t","a","t","e">>, 1),
         Col(oilseeds_str \o <<"C","o","t","t","o","n">> \o th_tonnes_str, 3),
         Col(<<"J","u","t","e","-","2","0","1","6","-","1","7">>, 4) >>,
      << Col(<<"R","e","g","i","o","n">>, 1),
         Col(<<"W","h","e","a","t","-","2","0","1","5","-","1","6">>, 2),
         Col(<<"R","i","c","e","-","2","0","1","5","-","1","6">>, 3),
         Col(<<"M","a","i","z","e">>, 4) >>,
      [i \in 1..WideCols |-> Col(WideName(i), IF i < 4 THEN i + 1 ELSE 0)] }

CropVals == { NA, Num(0), Num(4), Num(50000), Num(80000), Num(100000) }

Filler == <<Num(7000), Num(7000), Num(7000)>>

\* The rows of a crop table whose row for Punjab holds v
CropRowShapes(v) ==
    { << CropRow(Str(Punjab), v) >>,
      << CropRow(Str(Kerala), Filler), CropRow(Str(PUNJAB_sp), v) >>,
      << CropRow(Str(Punjab), v), CropRow(Str(punjab_sp), Filler) >> }

\* Tables whose state column holds no text, a missing state, a '#' cell
OddCropRows ==
    { << CropRow(Num(12), Filler) >>,
      << CropRow(NA, Filler) >>,
      << CropRow(NA, Filler), CropRow(Str(Punjab), <<Str(<<"#">>), Num(4), Num(50000)>>) >>,
      << >> }

ScenarioCropVals == <<Num(100000), Num(50000), Num(80000)>>

\* (file, state): a single Punjab row with every choice of cells under every
\* layout; the other row shapes and the odd tables with a few choices of
\* cells and a state that matches no row; the missing file
CropInputs ==
    { <<Frame(l, <<CropRow(Str(Punjab), v)>>), punjab_sp>> :
        l \in CropLayouts, v \in [1..3 -> CropVals] }
    \cup
    { <<Frame(l, rows), st>> :
        l \in CropLayouts,
        rows \in OddCropRows \cup CropRowShapes(ScenarioCropVals)
                    \cup CropRowShapes(<<Num(4), NA, Num(0)>>),
        st \in {Punjab, Goa} }
    \cup
    { <<EmptyFrame, Punjab>> }

----------------------------------------------------------------------------
(* The state machine: a call starts with its inputs chosen; each query is   *)
(* one step from "call" to "return", the download one step per attempt.    *)

NoArgs ==
    [state_x |-> <<>>, state_y |-> <<>>, state |-> <<>>, top_m |-> 0,
     last_n_years |-> 0, max_retries |-> 0]

Unset ==
    /\ result = Blank
    /\ years = <<>>
    /\ attempt = 0
    /\ outcomes = <<>>

InitRain ==
    /\ fn = "rain"
    /\ pc = "call"
    /\ \E inp \in RainInputs, n \in 1..MaxN :
        /\ csv = inp[1]
        /\ args = [NoArgs EXCEPT !.state_x = inp[2], !.state_y = inp[3],
                                 !.last_n_years = n]
    /\ file = "complete"
    /\ Unset

InitCrop ==
    /\ fn = "crop"
    /\ pc = "call"
    /\ \E inp \in CropInputs, m \in 1..MaxTopM, n \in 1..MaxN :
        /\ csv = inp[1]
        /\ args = [NoArgs EXCEPT !.state = inp[2], !.top_m = m, !.last_n_years = n]
    /\ file = "complete"
    /\ Unset

InitDownload ==
    /\ fn = "download"
    /\ pc = "call"
    /\ csv = EmptyFrame
    /\ \E m \in 0..MaxRetries : args = [NoArgs EXCEPT !.max_retries = m]
    /\ file \in {"absent", "complete"}
    /\ Unset

Init == InitRain \/ InitCrop \/ InitDownload

CompareAverageRainfall ==
    /\ fn = "rain" /\ pc = "call"
    /\ LET r == compare_average_rainfall(csv, args.state_x, args.state_y,
                                         args.last_n_years)
       IN  result' = r.ret /\ years' = r.years
    /\ pc' = "return"
    /\ UNCHANGED <<fn, csv, args, attempt, outcomes, file>>

TopCropsInState ==
    /\ fn = "crop" /\ pc = "call"
    /\ result' = top_crops_in_state(csv, args.state, args.top_m, args.last_n_years)
    /\ pc' = "return"
    /\ UNCHANGED <<fn, csv, args, years, attempt, outcomes, file>>

\* One iteration of the for loop (lines 32-49)
DownloadAttempt ==
    /\ fn = "download" /\ pc = "call"
    /\ attempt < args.max_retries
    /\ \E o \in Outcomes :
        /\ attempt' = attempt + 1
        /\ outcomes' = Append(outcomes, o)
        /\ file' \in FileAfter(o, file)
        /\ IF LeavesLoop(o)
           THEN pc' = "return" /\ result' = [Blank EXCEPT !.kind = "True"]
           ELSE pc' = "call" /\ result' = result
    /\ UNCHANGED <<fn, csv, args, years>>

\* range(max_retries) is exhausted: line 51
DownloadExhausted ==
    /\ fn = "download" /\ pc = "call"
    /\ attempt >= args.max_retries
    /\ pc' = "return"
    /\ result' = [Blank EXCEPT !.kind = "False"]
    /\ UNCHANGED <<fn, csv, args, years, attempt, outcomes, file>>

NextRain == CompareAverageRainfall
NextCrop == TopCropsInState
NextDownload == DownloadAttempt \/ DownloadExhausted
Next == CompareAverageRainfall \/ TopCropsInState \/ DownloadAttempt \/ DownloadExhausted

Spec == Init /\ [][Next]_vars
SpecRain == InitRain /\ [][NextRain]_vars
SpecCrop == InitCrop /\ [][NextCrop]_vars
\* Every GET carries a timeout and the loop body has no wait: a started call
\* keeps stepping
SpecDownload == InitDownload /\ [][NextDownload]_vars /\ WF_vars(NextDownload)

----------------------------------------------------------------------------
(* What the claims speak of, stated over the file and the arguments        *)
(* without the functions' own steps.                                       *)

Returned(f) == fn = f /\ pc = "return"

MinOf(S) == CHOOSE x \in S : \A y \in S : x <= y
MaxOf(S) == CHOOSE x \in S : \A y \in S : x >= y

RECURSIVE SumOver(_, _)
SumOver(S, val) ==
    IF S = {} THEN 0
    ELSE LET x == CHOOSE x \in S : TRUE IN val[x] + SumOver(S \ {x}, val)

\* s without the blanks around it
Core(s) ==
    LET inked == {i \in 1..Len(s) : ~IsSpace(s[i])}
    IN  IF inked = {} THEN <<>> ELSE SubSeq(s, MinOf(inked), MaxOf(inked))

\* equal up to surrounding blanks and letter case
SameState(a, b) ==
    LET ca == Core(a)
        cb == Core(b)
    IN  /\ Len(ca) = Len(cb)
        /\ \A h \in 1..Len(ca) : LowerChar(ca[h]) = LowerChar(cb[h])

\* h is num/den rounded to hundredths (ties to even)
IsRounded(h, num, den) ==
    LET d == 100 * num - h * den
        dist == IF d < 0 THEN -d ELSE d
    IN  2 * dist < den \/ (2 * dist = den /\ h % 2 = 0)

NRows == Len(csv.rows)
NonEmptyTable == csv.cols # <<>> /\ csv.rows # <<>>

RainStateCol == FirstCol([j \in 1..Len(csv.cols) |-> IsStateCol(csv.cols[j])])
RainYearCol == FirstCol([j \in 1..Len(csv.cols) |-> IsYearCol(csv.cols[j])])
RainRainCol == FirstCol([j \in 1..Len(csv.cols) |-> IsRainCol(csv.cols[j])])
RainResolved ==
    NonEmptyTable /\ RainStateCol # 0 /\ RainYearCol # 0 /\ RainRainCol # 0

\* the distinct non-missing years of the table
PresentYears ==
    LET yc == RainYearCol
    IN  {csv.rows[i][yc].v : i \in {h \in 1..NRows : csv.rows[h][yc].k = "num"}}

\* the last_n_years largest of them
RecencyWindow ==
    LET present == PresentYears
    IN  {y \in present : Cardinality({z \in present : z > y}) < args.last_n_years}

\* the rows of a state (any year)
StateRows(col, st) ==
    {i \in 1..NRows : /\ csv.rows[i][col].k # "na"
                      /\ SameState(CellText(csv.rows[i][col]), st)}

\* the rows of a state inside the window
WindowRows(st) ==
    LET window == RecencyWindow
        yc == RainYearCol
    IN  {i \in StateRows(RainStateCol, st) :
            /\ csv.rows[i][yc].k = "num"
            /\ csv.rows[i][yc].v \in window}

\* those of them with a rainfall value
ValuedRows(st) ==
    LET rc == RainRainCol
    IN  {i \in WindowRows(st) : csv.rows[i][rc].k = "num"}

RainOf == LET rc == RainRainCol IN [i \in 1..NRows |-> csv.rows[i][rc].v]

\* avg is the mean of the state's valued rows, rounded to two decimals
IsMeanOf(avg, st) ==
    LET valued == ValuedRows(st)
    IN  /\ valued # {}
        /\ ~avg.na
        /\ IsRounded(avg.v, SumOver(valued, RainOf), Cardinality(valued))

----------------------------------------------------------------------------
(* C3: with a non-missing year in the table, the window of                 *)
(* compare_average_rainfall has min(n, number of distinct years) entries,  *)
(* ascends strictly, holds exactly the n largest distinct years and is     *)
(* what years_analyzed reports; too few years is not an error.             *)
C3_RecencyWindow ==
    (Returned("rain") /\ RainResolved /\ PresentYears # {}) =>
        /\ Len(years) = IF args.last_n_years < Cardinality(PresentYears)
                        THEN args.last_n_years ELSE Cardinality(PresentYears)
        /\ \A h \in 1..(Len(years) - 1) : years[h] < years[h + 1]
        /\ {years[h] : h \in 1..Len(years)} = RecencyWindow
        /\ result.kind # "NoYearData"
        /\ result.kind = "ok" => result.years_analyzed = years

\* the window cuts the older of two years off, in a successful comparison
C3_Witness ==
    /\ Returned("rain") /\ RainResolved
    /\ Cardinality(PresentYears) = 2
    /\ args.last_n_years = 1
    /\ years = <<2019>>
    /\ result.kind = "ok"

(* C4: on success each average is the mean, rounded to two decimals, of    *)
(* the non-missing rainfall of the rows of the window whose state equals   *)
(* the argument up to blanks and case; the scenario table gives 2100.00    *)
(* and 3100.00 for both spellings of the two states.                       *)
C4_Averages ==
    (Returned("rain") /\ result.kind = "ok") =>
        /\ ~result.avg_rainfall_x.na => IsMeanOf(result.avg_rainfall_x, args.state_x)
        /\ ~result.avg_rainfall_y.na => IsMeanOf(result.avg_rainfall_y, args.state_y)
        /\ result.avg_rainfall_x.na => ValuedRows(args.state_x) = {}
        /\ result.avg_rainfall_y.na => ValuedRows(args.state_y) = {}
        /\ ( /\ csv = Frame(StdRainLayout, ScenarioRain)
             /\ args.last_n_years = 2
             /\ <<args.state_x, args.state_y>> \in
                    { <<maharashtra_sp, KERALA_up>>, <<Maharashtra, Kerala>> } )
           => /\ result.avg_rainfall_x = Val(210000)
              /\ result.avg_rainfall_y = Val(310000)

\* a state spelled in lower case with a blank, one of its rows without
\* rainfall, and a mean of three values that needs rounding
C4_Witness ==
    /\ Returned("rain") /\ result.kind = "ok"
    /\ args.state_x = maharashtra_sp
    /\ Cardinality(ValuedRows(args.state_x)) = 3
    /\ Cardinality(WindowRows(args.state_x)) > 3
    /\ result.avg_rainfall_x = Val(206667)

(* C7: when both states have a row in the window and all the rainfall of   *)
(* one side is missing, the call succeeds with "N/A" on that side and the  *)
(* mean on the other; StateNotFound only when a side has no row in the     *)
(* window.                                                                 *)
C7_AllMissingIsNA ==
    (/\ Returned("rain") /\ RainResolved
     /\ WindowRows(args.state_x) # {} /\ WindowRows(args.state_y) # {}
     /\ ValuedRows(args.state_x) = {} \/ ValuedRows(args.state_y) = {})
    => /\ result.kind = "ok"
       /\ IF ValuedRows(args.state_x) = {} THEN result.avg_rainfall_x = NaN
          ELSE IsMeanOf(result.avg_rainfall_x, args.state_x)
       /\ IF ValuedRows(args.state_y) = {} THEN result.avg_rainfall_y = NaN
          ELSE IsMeanOf(result.avg_rainfall_y, args.state_y)

\* What holds of a download at every step: the attempts stay within
\* max_retries, none follows a 200 that was written, True is returned exactly
\* on such an attempt (the file is then whole), False only after max_retries
\* failed attempts
DownloadSafe ==
    fn = "download" =>
        /\ attempt <= args.max_retries
        /\ Len(outcomes) = attempt
        /\ \A h \in 1..(Len(outcomes) - 1) : outcomes[h] # "ok200"
        /\ pc = "return" => result.kind \in {"True", "False"}
        /\ (pc = "return" /\ result.kind = "True")
              <=> (outcomes # <<>> /\ outcomes[Len(outcomes)] = "ok200")
        /\ (pc = "return" /\ result.kind = "True") => file = "complete"
        /\ (pc = "return" /\ result.kind = "False") =>
              /\ attempt = args.max_retries
              /\ \A h \in 1..Len(outcomes) : outcomes[h] # "ok200"

(* C10: download_csv_with_retry ends, after at most max_retries attempts;  *)
(* it stops at the first attempt that gets 200 and writes the file, gives  *)
(* True exactly then, and False only after max_retries failed attempts.    *)
C10_Download == []DownloadSafe /\ <>(pc = "return")

\* success on the second attempt of three allowed
C10_Witness ==
    /\ Returned("download") /\ result.kind = "True"
    /\ args.max_retries = 3
    /\ outcomes = <<"timeout", "ok200">>

----------------------------------------------------------------------------
(* The crop table as the claims speak of it *)

CropStateCol == FirstCol([j \in 1..Len(csv.cols) |-> IsCropStateCol(csv.cols[j])])
CropResolved == NonEmptyTable /\ CropStateCol # 0
CropMatched == CropResolved /\ StateRows(CropStateCol, args.state) # {}

\* What the table says of the requested state, column by column: the year
\* token and the crop label of each column, the columns that stand for a
\* crop (crop), those of them whose cell in the state's first row is a
\* number above zero (pos) with that number (prod), and the two windows:
\* cal, as the code draws it (the calendar years max_year - n + 1 and later;
\* a column without a usable year token is not tested), and data, the n
\* largest years present among the columns
CropView ==
    LET sc == CropStateCol
        r == MinOf(StateRows(sc, args.state))
        width == Len(csv.cols)
        yr == [j \in 1..width |-> YearMatch(csv.cols[j])]
        lab == [j \in 1..width |-> CropName(csv.cols[j], yr[j])]
        crop == {j \in 1..width : j # sc /\ ~Dropped(lab[j])}
        dated == {j \in crop : yr[j] > 0}
        present == {yr[j] : j \in dated}
    IN  [yr |-> yr, lab |-> lab, crop |-> crop,
         pos |-> {j \in crop : csv.rows[r][j].k = "num" /\ csv.rows[r][j].v > 0},
         prod |-> [j \in 1..width |-> csv.rows[r][j].v],
         undated |-> {j \in crop : yr[j] = None},
         cal |-> {j \in crop :
                    j \in dated => yr[j] >= max_year - args.last_n_years + 1},
         data |-> {j \in dated :
                    Cardinality({z \in present : z > yr[j]}) < args.last_n_years}]

\* the total of a crop label over a set of columns
TotalOver(V, cols, label) ==
    SumOver({j \in cols \cap V.pos : V.lab[j] = label}, V.prod)

LabelsOver(V, cols) == {V.lab[j] : j \in cols \cap V.pos}

FirstColOver(V, cols, label) == MinOf({j \in cols \cap V.pos : V.lab[j] = label})

Listed == {result.top_crops[i].crop : i \in 1..Len(result.top_crops)}

\* every listed total is the rounded total of its crop over the columns
ListsTotalsOver(V, cols) ==
    \A i \in 1..Len(result.top_crops) :
        /\ result.top_crops[i].crop \in LabelsOver(V, cols)
        /\ IsRounded(result.top_crops[i].total_production,
                     TotalOver(V, cols, result.top_crops[i].crop), 1000)

wheat == <<"W","h","e","a","t">>

ScenarioCrop ==
    Frame(CHOOSE l \in CropLayouts : l[1].name = <<"S","t","a","t","e">>,
          <<CropRow(Str(Punjab), ScenarioCropVals)>>)

(* C1: top_crops_in_state sums only over the columns whose year is one of  *)
(* the last_n_years most recent years present among the columns (stated    *)
(* for the tables whose crop columns all carry a year); the scenario with  *)
(* top_m = 1 and last_n_years = 1 succeeds with Wheat 100.00.              *)
C1_WindowFromData ==
    (Returned("crop") /\ CropMatched) =>
        LET V == CropView
        IN  /\ V.undated = {} =>
                IF LabelsOver(V, V.data) = {}
                THEN result.kind = "NoValidProduction"
                ELSE result.kind = "ok" /\ ListsTotalsOver(V, V.data)
            /\ (csv = ScenarioCrop /\ args.top_m = 1 /\ args.last_n_years = 1)
                => /\ result.kind = "ok"
                   /\ result.top_crops =
                        <<[crop |-> wheat, total_production |-> 10000]>>

(* C6 as claimed: a column whose name yields no year token contributes to  *)
(* no total: every listed total is summed over dated columns of the        *)
(* window only.                                                            *)
C6_UndatedExcluded ==
    (Returned("crop") /\ CropMatched /\ result.kind = "ok") =>
        LET V == CropView IN ListsTotalsOver(V, V.cal \ V.undated)

(* C6 as amended: a crop column whose name yields no year token is never   *)
(* excluded by the window: for every last_n_years >= 1 a positive cell of  *)
(* it makes the query succeed and is part of its crop's total, which is    *)
(* listed unless top_m crops with totals at least as large are.            *)
C6_UndatedIncluded ==
    (Returned("crop") /\ CropMatched) =>
        LET V == CropView
        IN  \A j \in V.pos \cap V.undated :
                /\ j \in V.cal
                /\ result.kind = "ok"
                /\ ListsTotalsOver(V, V.cal)
                /\ \/ V.lab[j] \in Listed
                   \/ /\ Len(result.top_crops) = args.top_m
                      /\ \A c \in Listed :
                            TotalOver(V, V.cal, c) >= TotalOver(V, V.cal, V.lab[j])

\* an undated column is the only positive one and is listed with its value,
\* with a window of one year
C6_Witness ==
    /\ Returned("crop") /\ CropMatched
    /\ args.last_n_years = 1
    /\ LET V == CropView
       IN  \E j \in V.pos \cap V.undated :
            /\ V.pos = {j}
            /\ result.kind = "ok"
            /\ result.top_crops =
                  <<[crop |-> V.lab[j], total_production |-> 5000]>>

\* C9 without its clause on the sign of the listed totals
TopCropsOrdered(V) ==
    LET labels == LabelsOver(V, V.cal)
        top == result.top_crops
        T == [c \in labels |-> TotalOver(V, V.cal, c)]
    IN  IF labels = {} THEN result.kind = "NoValidProduction"
        ELSE /\ result.kind = "ok"
             /\ Len(top) = IF args.top_m < Cardinality(labels)
                           THEN args.top_m ELSE Cardinality(labels)
             /\ ListsTotalsOver(V, V.cal)
             /\ \A i, h \in 1..Len(top) : i < h =>
                    /\ top[i].crop # top[h].crop
                    /\ T[top[i].crop] >= T[top[h].crop]
                    /\ top[i].total_production >= top[h].total_production
                    /\ T[top[i].crop] = T[top[h].crop] =>
                          FirstColOver(V, V.cal, top[i].crop)
                              < FirstColOver(V, V.cal, top[h].crop)
             /\ \A c \in labels \ Listed : \A i \in 1..Len(top) :
                    T[c] <= T[top[i].crop]

(* C9 as claimed: on success top_crops has min(top_m, crops with a         *)
(* positive total) entries, distinct, by total non-increasing, equal       *)
(* totals in column order, no omitted crop above a listed one, and every   *)
(* listed total is > 0; a matched state without a positive value gives     *)
(* NoValidProduction.                                                      *)
C9_ListedTotalsPositive ==
    (Returned("crop") /\ CropMatched) =>
        /\ TopCropsOrdered(CropView)
        /\ \A i \in 1..Len(result.top_crops) :
                result.top_crops[i].total_production > 0

(* C9 as amended: the same, where the total that is > 0 is the crop's sum; *)
(* the listed figure is that sum rounded to two decimals and is >= 0 (a    *)
(* sum below 0.005 is listed as 0.00).                                     *)
C9_TopCrops ==
    (Returned("crop") /\ CropMatched) =>
        LET V == CropView
        IN  /\ TopCropsOrdered(V)
            /\ \A i \in 1..Len(result.top_crops) :
                    /\ TotalOver(V, V.cal, result.top_crops[i].crop) > 0
                    /\ result.top_crops[i].total_production >= 0

\* three crops with a positive total, the two listed ones tied and in
\* column order, the third cut off by top_m
C9_Witness ==
    /\ Returned("crop") /\ result.kind = "ok"
    /\ args.top_m = 2
    /\ Len(result.top_crops) = 2
    /\ result.top_crops[1].total_production = result.top_crops[2].total_production
    /\ LET V == CropView
       IN  /\ Cardinality(LabelsOver(V, V.cal)) = 3
           /\ FirstColOver(V, V.cal, result.top_crops[1].crop)
                < FirstColOver(V, V.cal, result.top_crops[2].crop)

----------------------------------------------------------------------------
(* Claims on both queries *)

IsQuery == fn \in {"rain", "crop"} /\ pc = "return"

(* C2: neither query raises: every call hands back a result record.        *)
C2_NeverRaises == IsQuery => result.kind # "raise"

\* a required role column cannot be resolved on a non-empty table
RoleMissing ==
    /\ NonEmptyTable
    /\ \/ fn = "rain" /\ (RainStateCol = 0 \/ RainYearCol = 0 \/ RainRainCol = 0)
       \/ fn = "crop" /\ CropStateCol = 0

(* C5 as claimed: an unresolved role column gives MissingColumn whose      *)
(* available_columns are exactly the columns of the table, whatever its    *)
(* width.                                                                  *)
C5_AllColumnsListed ==
    (IsQuery /\ RoleMissing) =>
        /\ result.kind = "MissingColumn"
        /\ result.available_columns = csv.cols

(* C5 as amended: an unresolved role column gives MissingColumn;           *)
(* compare_average_rainfall lists exactly the columns of the table,        *)
(* top_crops_in_state lists the first 20 of them in table order (all of    *)
(* them when the table has at most 20).                                    *)
C5_AvailableColumns ==
    (IsQuery /\ RoleMissing) =>
        /\ result.kind = "MissingColumn"
        /\ fn = "rain" => result.available_columns = csv.cols
        /\ fn = "crop" =>
            /\ Len(result.available_columns) =
                  IF Len(csv.cols) > 20 THEN 20 ELSE Len(csv.cols)
            /\ \A j \in 1..Len(result.available_columns) :
                  result.available_columns[j] = csv.cols[j]

\* a crop table wider than the sample, reported by its first columns
C5_Witness ==
    /\ Returned("crop") /\ RoleMissing
    /\ Len(csv.cols) > 20
    /\ result.kind = "MissingColumn"
    /\ Len(result.available_columns) = 20

\* a requested state matches no row of a table whose role columns resolve
UnmatchedStates ==
    IF fn = "rain"
    THEN {st \in {args.state_x, args.state_y} : StateRows(RainStateCol, st) = {}}
    ELSE {st \in {args.state} : StateRows(CropStateCol, st) = {}}

StateCells ==
    LET sc == IF fn = "rain" THEN RainStateCol ELSE CropStateCol
    IN  {csv.rows[i][sc] : i \in 1..NRows}

(* C8: on a non-empty table with its role columns resolved, a requested    *)
(* state that matches no row gives StateNotFound naming that state, with a *)
(* non-empty sample of at most 30 state values of the table.               *)
C8_StateNotFound ==
    (/\ IsQuery
     /\ IF fn = "rain" THEN RainResolved ELSE CropResolved
     /\ UnmatchedStates # {})
    => /\ result.kind = "StateNotFound"
       /\ result.state \in UnmatchedStates
       /\ result.available_states_sample # <<>>
       /\ Len(result.available_states_sample) <= 30
       /\ \A h \in 1..Len(result.available_states_sample) :
              result.available_states_sample[h] \in StateCells
====
